---- MODULE Spec2Model ----
(***************************************************************************)
(* Model of the video assembly stage of reddit-reader                      *)
(* (src/video_assembler.py) and of the audio durations that feed it        *)
(* (src/audio_generator.py).                                               *)
(*                                                                         *)
(* Time is counted in tenths of a second, so the 0.3 s gap of              *)
(* assemble_video is 3 and the 16000 bytes-per-second estimate of          *)
(* _get_audio_duration is 1600 bytes per unit.  Arithmetic is exact        *)
(* (fixed point): floating-point rounding is not modelled.                 *)
(***************************************************************************)
EXTENDS Integers, Sequences, FiniteSets, TLC

\* ------------------------------------------------------------------ bounds
MaxSegs == 2
MaxDur == 2
MaxCharDur == 2
MaxSrcDur == 3
MaxSide == 4
MaxCallDur == 7
MaxSizeUnits == 1
MaxStories == 2
MaxWords == 4
MaxChunks == 2
MaxFailures == 5
MaxScript == 2

\* ------------------------------------------------------- program constants
VIDEO_WIDTH == 1080
VIDEO_HEIGHT == 1920
gap_duration == 3
BytesPerUnit == 1600
CharWidthPercent == 35
CharSourceSide == 512
FONT_SIZE_TITLE == 48
FONT_SIZE_STORY == 36
FONT_SIZE_COMMENTARY == 32
margin == 20
max_lines == 8
MAX_RETRIES == 3

VARIABLES
    config,             \* self.config: frame width and height
    background_videos,  \* self.background_videos: the background source pool
    audio_segments,     \* argument of assemble_video
    character_videos,   \* argument of assemble_video (<<>> when None)
    pc,                 \* position inside assemble_video
    total_duration,
    background,
    char_video_map,
    audio_clips,
    text_clips,
    character_clips,
    current_time,
    idx,                \* loop position in audio_segments (1-based)
    all_clips,
    final_audio,
    final_video,
    output_file,        \* what is at output_path: "absent", "partial", "complete"
    raised,             \* the exception that left assemble_video, or "none"
    failed_stages,      \* the stages one of whose clips failed to load or be built
    open_resources,     \* the clips opened and not closed yet
    p_pc,               \* run_full_pipeline: the stage about to run
    dry_run,            \* self.dry_run
    enable_character,   \* self.enable_character
    upload,             \* the upload argument of run_full_pipeline
    results,            \* the results dict of run_full_pipeline
    trace,              \* the stages run_full_pipeline has called, with outcomes
    thumbnail,          \* how create_thumbnail ended
    used_stories,       \* RedditScraper.used_stories
    n_audio,            \* len(audio_segments) in run_full_pipeline
    temp_files,         \* the story's files under TEMP_DIR: "none", "present", "removed"
    u_pc,               \* position inside _resumable_upload
    chunks_left,        \* chunks the upload still needs
    response,           \* _resumable_upload: response
    error,              \* _resumable_upload: error ("None" for None)
    retry,              \* _resumable_upload: retry
    failures,           \* retriable failures of next_chunk so far (capped)
    sleeps,             \* time.sleep calls made by _resumable_upload
    http_status,        \* status of the HttpError next_chunk raised last, or 0
    call,               \* last direct call of a VideoAssembler helper
    ret,                \* and what it returned
    b_pc,               \* position inside batch_process
    batch_stories,      \* batch_process: `stories`, as story ids
    b_idx,              \* batch_process: 1-based position in `stories`
    b_results           \* batch_process: the list `results`

vars == <<config, background_videos, audio_segments, character_videos, pc,
          total_duration, background, char_video_map, audio_clips, text_clips,
          character_clips, current_time, idx, all_clips, final_audio,
          final_video, output_file, raised, failed_stages, open_resources,
          call, ret, p_pc, dry_run, enable_character, upload, results, trace,
          thumbnail, used_stories, n_audio, temp_files, u_pc, chunks_left,
          response, error, retry, failures, sleeps, http_status, b_pc,
          batch_stories, b_idx, b_results>>

batchVars == <<b_pc, batch_stories, b_idx, b_results>>

pipeVars == <<p_pc, dry_run, enable_character, upload, results, trace,
              thumbnail, used_stories, n_audio, temp_files>>

uploadVars == <<u_pc, chunks_left, response, error, retry, failures, sleeps,
                http_status>>

asmVars == <<pc, total_duration, background, char_video_map, audio_clips,
             text_clips, character_clips, current_time, idx, all_clips,
             final_audio, final_video, output_file, raised, failed_stages,
             open_resources>>

\* ----------------------------------------------------------------- helpers
Min(a, b) == IF a <= b THEN a ELSE b
Max(a, b) == IF a >= b THEN a ELSE b

\* Python int() of the half-integer x2/2: truncation toward zero.
PyIntHalf(x2) == IF x2 >= 0 THEN x2 \div 2 ELSE -((-x2) \div 2)

\* Length of the Python/numpy slice [a:b] of an axis of n pixels.
SliceIndex(n, k) == IF k < 0 THEN Max(n + k, 0) ELSE Min(k, n)
SliceLen(n, a, b) == Max(SliceIndex(n, b) - SliceIndex(n, a), 0)

RECURSIVE MaxEnd(_)
MaxEnd(clips) ==
    IF clips = <<>> THEN 0
    ELSE Max(Head(clips).end, MaxEnd(Tail(clips)))

\* ------------------------------------------------------------ moviepy clips
\* A clip: what it is, when it plays on the timeline, its frame size, the
\* audio segment it belongs to (-1: none), how many times its source is
\* repeated and how much source material it holds from its own time 0.
NoClip == [kind |-> "none", start |-> 0, duration |-> 0, end |-> 0,
           w |-> 0, h |-> 0, seg |-> -1, loops |-> 0, footage |-> 0]

NewClip(kind, duration, w, h, seg) ==
    [kind |-> kind, start |-> 0, duration |-> duration, end |-> duration,
     w |-> w, h |-> h, seg |-> seg, loops |-> 1, footage |-> duration]

set_start(clip, t) == [clip EXCEPT !.start = t, !.end = t + clip.duration]

set_duration(clip, d) == [clip EXCEPT !.duration = d, !.end = clip.start + d]

loop(clip, n) ==
    [clip EXCEPT !.loops = n, !.duration = n * clip.duration,
                 !.end = clip.start + n * clip.duration,
                 !.footage = n * clip.footage]

\* clip.subclip(0, t_end): a negative t_end counts from the end of the clip.
subclip(clip, t_end) ==
    LET e == IF t_end < 0 THEN clip.duration + t_end ELSE t_end
    IN  [clip EXCEPT !.duration = e, !.end = clip.start + e]

resize(clip, w, h) == [clip EXCEPT !.w = w, !.h = h]

\* clip.crop(x1=, x2=) / clip.crop(y1=, y2=) with bounds given in half pixels;
\* the frame is sliced pic[int(y1):int(y2), int(x1):int(x2)].
crop_x(clip, x1_2, x2_2) ==
    LET a == PyIntHalf(x1_2)
        b == IF x2_2 = 0 THEN clip.w ELSE PyIntHalf(x2_2)
    IN  [clip EXCEPT !.w = SliceLen(clip.w, a, b)]

crop_y(clip, y1_2, y2_2) ==
    LET a == PyIntHalf(y1_2)
        b == IF y2_2 = 0 THEN clip.h ELSE PyIntHalf(y2_2)
    IN  [clip EXCEPT !.h = SliceLen(clip.h, a, b)]

\* -------------------------------------------------- AudioGenerator helpers
\* _get_audio_duration: the ffprobe answer when ffprobe runs and prints a
\* number, else the estimate file_size / 16000 s (here: bytes per time unit).
_get_audio_duration(file, ffprobe_ok) ==
    IF ffprobe_ok THEN file.real ELSE file.size \div BytesPerUnit

\* A slip that inverts the aspect-ratio test.
_resize_and_crop_locals_Inverted(clip, cfg) ==
    IF clip.w * cfg.height < cfg.width * clip.h
    THEN LET new_width == (clip.w * cfg.height) \div clip.h
         IN  [fit |-> "height", new_width |-> new_width,
              new_height |-> cfg.height, off_2 |-> new_width - cfg.width]
    ELSE LET new_height == (cfg.width * clip.h) \div clip.w
         IN  [fit |-> "width", new_width |-> cfg.width,
              new_height |-> new_height, off_2 |-> new_height - cfg.height]

\* ------------------------------------------------- VideoAssembler helpers
\* The locals of _resize_and_crop: the branch taken, the size the clip is
\* scaled to and the crop offset (x1 or y1) in half pixels.
_resize_and_crop_locals(clip, cfg) ==
    IF clip.w * cfg.height > cfg.width * clip.h
    THEN LET new_width == (clip.w * cfg.height) \div clip.h
         IN  [fit |-> "height", new_width |-> new_width,
              new_height |-> cfg.height, off_2 |-> new_width - cfg.width]
    ELSE LET new_height == (cfg.width * clip.h) \div clip.w
         IN  [fit |-> "width", new_width |-> cfg.width,
              new_height |-> new_height, off_2 |-> new_height - cfg.height]

_resize_and_crop(clip, cfg) ==
    LET l == _resize_and_crop_locals(clip, cfg)
    IN  IF l.fit = "height"
        THEN crop_x(resize(clip, (clip.w * l.new_height) \div clip.h, l.new_height),
                    l.off_2, l.off_2 + 2 * cfg.width)
        ELSE crop_y(resize(clip, l.new_width, (clip.h * l.new_width) \div clip.w),
                    l.off_2, l.off_2 + 2 * cfg.height)

\* A slip that forgets the extra loop.
loops_needed_NoExtra(duration, clip_duration) == duration \div clip_duration


loops_needed(duration, clip_duration) == (duration \div clip_duration) + 1

\* _get_background_clip with a non-empty pool, src being random.choice's pick.
BackgroundFromSource(src, duration, cfg) ==
    LET loaded == NewClip("background", src.duration, src.w, src.h, -1)
        sized == _resize_and_crop(loaded, cfg)
        looped == IF sized.duration < duration
                  THEN loop(sized, loops_needed(duration, sized.duration))
                  ELSE sized
    IN  subclip(looped, duration)

\* A slip that passes the size as (height, width).
ColorClip_Transposed(cfg, duration) ==
    NewClip("color", duration, cfg.height, cfg.width, -1)

\* _get_background_clip with an empty pool: the solid-color fallback.
ColorClip(cfg, duration) ==
    NewClip("color", duration, cfg.width, cfg.height, -1)

\* random.choice(self.background_videos); not evaluated for an empty pool.
NoSource == [duration |-> 0, w |-> 0, h |-> 0]
BackgroundChoices(pool) == IF pool = {} THEN {NoSource} ELSE pool

\* _get_background_clip, src being random.choice's pick.
_get_background_clip(pool, src, duration, cfg) ==
    IF pool = {}
    THEN ColorClip(cfg, duration)
    ELSE BackgroundFromSource(src, duration, cfg)

\* A slip that keeps the caption up during the gap after its segment.
_create_text_clip_ThroughGap(duration, seg, cfg) ==
    set_duration(NewClip("caption", 0, cfg.width - 80, 0, seg),
                 duration + gap_duration)

\* _create_text_clip: both the styled clip and the fallback get set_duration.
_create_text_clip(duration, seg, cfg) ==
    set_duration(NewClip("caption", 0, cfg.width - 80, 0, seg), duration)

_create_subreddit_badge(duration) ==
    set_duration(NewClip("badge", 0, 0, 0, -1), duration)

\* A slip that makes the character layer fill its slot.
CharDuration_FillSlot(native, duration) == duration


CharDuration(native, duration) == Min(native, duration)

_create_character_clip(native, duration, start_time, seg, cfg) ==
    LET loaded == NewClip("character", native, CharSourceSide, CharSourceSide, seg)
        target_width == (cfg.width * CharWidthPercent) \div 100
        target_height == (loaded.h * target_width) \div loaded.w
        sized == resize(loaded, target_width, target_height)
        placed == set_start(sized, start_time)
    IN  set_duration(placed, CharDuration(placed.duration, duration))

AudioFileClip(seg) == NewClip("audio", seg.audio_path.real, 0, 0, seg.segment_index)

RECURSIVE SumDurations(_)
SumDurations(segs) ==
    IF segs = <<>> THEN 0
    ELSE Head(segs).duration + SumDurations(Tail(segs))

\* A slip that counts one gap per segment instead of one per pair.
TotalDuration_GapPerSegment(segs) ==
    SumDurations(segs) + gap_duration * Len(segs)


TotalDuration(segs) ==
    SumDurations(segs) + gap_duration * (Len(segs) - 1)

\* A slip that places the segments back to back.
NextStart_NoGap(t, duration) == t + duration


NextStart(t, duration) == t + duration + gap_duration

RECURSIVE BuildCharVideoMap(_)
BuildCharVideoMap_EverySegment(cvs) ==
    IF cvs = <<>> THEN {} ELSE 0..MaxSegs

BuildCharVideoMap(cvs) ==
    IF cvs = <<>> THEN {}
    ELSE BuildCharVideoMap(Tail(cvs)) \cup {Head(cvs).segment_index}

\* A slip that puts the character layers on top of the text layers.
LayerOrder_CharactersOnTop(bg, chars, texts) == <<bg>> \o texts \o chars


LayerOrder(bg, chars, texts) == <<bg>> \o chars \o texts

\* ------------------------------------------------------------------ inputs
VideoConfig == [width |-> VIDEO_WIDTH, height |-> VIDEO_HEIGHT]

\* The mp3 files text-to-speech can leave on disk: how long they play and
\* how many bytes they hold.
AudioFiles ==
    [real : 1..MaxDur, size : {k * BytesPerUnit : k \in 1..MaxSizeUnits}]

\* The AudioSegment generate_all_audio appends for script segment i; probes
\* says whether ffprobe answers (TRUE) or the size estimate is used (FALSE).
AudioSegmentsAt(i, probes) ==
    { [segment_index |-> i,
       audio_path |-> [real |-> f.real],
       duration |-> _get_audio_duration(f, ok)] :
         f \in AudioFiles, ok \in probes }

\* What generate_all_audio can return for script segments i, i+1, ...: one
\* entry per segment whose text-to-speech call succeeded, in script order.
RECURSIVE AudioSegmentLists(_, _)
AudioSegmentLists(i, probes) ==
    IF i >= MaxSegs THEN {<<>>}
    ELSE LET rest == AudioSegmentLists(i + 1, probes)
         IN  rest \cup { <<a>> \o l : a \in AudioSegmentsAt(i, probes), l \in rest }

\* What generate_all_commentary_videos can return: at most one entry per
\* audio segment (the commentator ones whose video was generated), in order.
RECURSIVE CharacterVideoLists(_)
CharacterVideoLists(segs) ==
    IF segs = <<>> THEN {<<>>}
    ELSE LET rest == CharacterVideoLists(Tail(segs))
             a == Head(segs)
         IN  rest \cup { <<[segment_index |-> a.segment_index,
                            duration |-> a.duration]>> \o l : l \in rest }

StockSizes == {<<1920, 1080>>, <<1080, 1920>>}

SmallSizes == (1..MaxSide) \X (1..MaxSide)

Sources(sizes) ==
    { [duration |-> d, w |-> sz[1], h |-> sz[2]] :
        d \in 1..MaxSrcDur, sz \in sizes }

\* A pool of landscape and portrait footage of one length.
StockPool ==
    { [duration |-> MaxSrcDur, w |-> sz[1], h |-> sz[2]] : sz \in StockSizes }

NoLocals == [fit |-> "none", new_width |-> 0, new_height |-> 0, off_2 |-> 0]
NoCall == [fn |-> "none", duration |-> 0, src |-> NoSource]
NoReturn == [clip |-> NoClip, locals |-> NoLocals]

\* ------------------------------------------------------------ assemble_video
Idle ==
    /\ pc = "start" /\ total_duration = 0 /\ background = NoClip
    /\ char_video_map = {} /\ audio_clips = <<>> /\ text_clips = <<>>
    /\ character_clips = <<>> /\ current_time = 0 /\ idx = 1
    /\ all_clips = <<>> /\ final_audio = NoClip /\ final_video = NoClip
    /\ output_file = "absent" /\ raised = "none"
    /\ failed_stages = {} /\ open_resources = {}
    /\ call = NoCall /\ ret = NoReturn

\* pipeline.py lines 95-101: the results dict run_full_pipeline starts from.
InitialResults ==
    [success |-> FALSE, story_id |-> 0, video_path |-> "None",
     youtube_id |-> 0, errors |-> <<>>]

\* No run_full_pipeline call is in progress.
RunIdle ==
    /\ p_pc = "idle" /\ dry_run = FALSE /\ enable_character = FALSE
    /\ upload = FALSE /\ results = InitialResults /\ trace = <<>>
    /\ thumbnail = "not_run" /\ n_audio = 0 /\ temp_files = "none"

\* ... and nothing is in the archive of used stories.
PipelineIdle ==
    /\ RunIdle
    /\ used_stories = {}

\* No _resumable_upload call is in progress.
UploadIdle ==
    /\ u_pc = "idle" /\ chunks_left = 0 /\ response = "None"
    /\ error = "None" /\ retry = 0 /\ failures = 0 /\ sleeps = 0
    /\ http_status = 0

\* No batch_process call is in progress.
BatchIdle ==
    /\ b_pc = "idle" /\ batch_stories = <<>> /\ b_idx = 0 /\ b_results = <<>>

\* assemble_video is entered with what the audio and character stages
\* produced on a machine where ffprobe works.
Init ==
    /\ config = VideoConfig
    /\ background_videos \in {{}, StockPool}
    /\ audio_segments \in AudioSegmentLists(0, {TRUE})
    /\ character_videos \in CharacterVideoLists(audio_segments)
    /\ Idle
    /\ PipelineIdle
    /\ UploadIdle
    /\ BatchIdle

\* The same on a machine where ffprobe may be missing or print nothing, so
\* that _get_audio_duration falls back to the file-size estimate.
InitEstimated ==
    /\ config = VideoConfig
    /\ background_videos \in {{}, StockPool}
    /\ audio_segments \in AudioSegmentLists(0, BOOLEAN)
    /\ character_videos \in CharacterVideoLists(audio_segments)
    /\ Idle
    /\ PipelineIdle
    /\ UploadIdle
    /\ BatchIdle

Raise(exc) ==
    /\ pc' = "raised"
    /\ raised' = exc

\* Lines 267-272: total_duration.
ComputeTotalDuration ==
    /\ pc = "start"
    /\ total_duration' = TotalDuration(audio_segments)
    /\ pc' = "background"
    /\ UNCHANGED <<config, background_videos, audio_segments, character_videos,
                   background, char_video_map, audio_clips, text_clips,
                   character_clips, current_time, idx, all_clips, final_audio,
                   final_video, output_file, raised, call, ret,
                   failed_stages, open_resources>>
    /\ UNCHANGED <<pipeVars, uploadVars, batchVars>>

\* Line 278: background = self._get_background_clip(total_duration); opening
\* the chosen source file can fail.
GetBackground ==
    /\ pc = "background"
    /\ \/ /\ \E src \in BackgroundChoices(background_videos) :
                background' = _get_background_clip(background_videos, src,
                                                   total_duration, config)
          /\ pc' = "char_map"
          /\ open_resources' = IF background_videos = {} THEN open_resources
                                ELSE open_resources \cup {<<"background", -1>>}
          /\ UNCHANGED <<raised, failed_stages>>
       \/ /\ background_videos # {}
          /\ Raise("OSError")
          /\ failed_stages' = failed_stages \cup {"background"}
          /\ UNCHANGED <<background, open_resources>>
    /\ UNCHANGED <<config, background_videos, audio_segments, character_videos,
                   total_duration, char_video_map, audio_clips, text_clips,
                   character_clips, current_time, idx, all_clips, final_audio,
                   final_video, output_file, call, ret>>
    /\ UNCHANGED <<pipeVars, uploadVars, batchVars>>

\* Lines 281-292: char_video_map and the loop's locals.
BuildIndex ==
    /\ pc = "char_map"
    /\ char_video_map' = BuildCharVideoMap(character_videos)
    /\ audio_clips' = <<>>
    /\ text_clips' = <<>>
    /\ character_clips' = <<>>
    /\ current_time' = 0
    /\ idx' = 1
    /\ pc' = "loop"
    /\ UNCHANGED <<config, background_videos, audio_segments, character_videos,
                   total_duration, background, all_clips, final_audio,
                   final_video, output_file, raised, call, ret,
                   failed_stages, open_resources>>
    /\ UNCHANGED <<pipeVars, uploadVars, batchVars>>

\* Lines 294-323: one iteration of the loop over audio_segments.
LoopSegment ==
    /\ pc = "loop"
    /\ idx <= Len(audio_segments)
    /\ LET audio_seg == audio_segments[idx]
           audio_clip == set_start(AudioFileClip(audio_seg), current_time)
           text_clip == set_start(_create_text_clip(audio_seg.duration,
                                      audio_seg.segment_index, config),
                                  current_time)
       IN  \/ \* AudioFileClip cannot open the file
              /\ Raise("OSError")
              /\ failed_stages' = failed_stages \cup {"audio"}
              /\ UNCHANGED <<audio_clips, text_clips, character_clips,
                             current_time, idx, open_resources>>
           \/ \* TextClip fails, and so does the fallback TextClip
              /\ Raise("OSError")
              /\ audio_clips' = Append(audio_clips, audio_clip)
              /\ failed_stages' = failed_stages \cup {"caption"}
              /\ open_resources' = open_resources
                                     \cup {<<"audio", audio_seg.segment_index>>}
              /\ UNCHANGED <<text_clips, character_clips, current_time, idx>>
           \/ /\ audio_clips' = Append(audio_clips, audio_clip)
              /\ text_clips' = Append(text_clips, text_clip)
              /\ IF audio_seg.segment_index \in char_video_map
                 THEN \/ /\ \E native \in 1..MaxCharDur :
                              character_clips' = Append(character_clips,
                                  _create_character_clip(native, audio_seg.duration,
                                      current_time, audio_seg.segment_index, config))
                         /\ open_resources' = open_resources
                                \cup {<<"audio", audio_seg.segment_index>>,
                                      <<"character", audio_seg.segment_index>>}
                         /\ UNCHANGED failed_stages
                      \/ \* _create_character_clip caught an exception: None
                         /\ failed_stages' = failed_stages \cup {"character"}
                         /\ open_resources' = open_resources
                                \cup {<<"audio", audio_seg.segment_index>>}
                         /\ UNCHANGED character_clips
                 ELSE /\ open_resources' = open_resources
                                \cup {<<"audio", audio_seg.segment_index>>}
                      /\ UNCHANGED <<character_clips, failed_stages>>
              /\ current_time' = NextStart(current_time, audio_seg.duration)
              /\ idx' = idx + 1
              /\ UNCHANGED <<pc, raised>>
    /\ UNCHANGED <<config, background_videos, audio_segments, character_videos,
                   total_duration, background, char_video_map, all_clips,
                   final_audio, final_video, output_file, call, ret>>
    /\ UNCHANGED <<pipeVars, uploadVars, batchVars>>

\* Lines 326-328: the badge goes to the front of text_clips, unless
\* _create_subreddit_badge returned None.
CreateBadge ==
    /\ pc = "loop"
    /\ idx > Len(audio_segments)
    /\ \/ /\ text_clips' = <<_create_subreddit_badge(total_duration)>> \o text_clips
          /\ UNCHANGED failed_stages
       \/ \* _create_subreddit_badge caught an exception: None
          /\ failed_stages' = failed_stages \cup {"badge"}
          /\ UNCHANGED text_clips
    /\ pc' = "composite"
    /\ UNCHANGED <<config, background_videos, audio_segments, character_videos,
                   total_duration, background, char_video_map, audio_clips,
                   character_clips, current_time, idx, all_clips, final_audio,
                   final_video, output_file, raised, call, ret,
                   open_resources>>
    /\ UNCHANGED <<pipeVars, uploadVars, batchVars>>

\* Lines 334-348: the mixed audio track and the composite video.
\* CompositeAudioClip takes max() over its clips and raises on an empty list.
Composite ==
    /\ pc = "composite"
    /\ IF audio_clips = <<>>
       THEN /\ Raise("ValueError")
            /\ UNCHANGED <<all_clips, final_audio, final_video, open_resources>>
       ELSE LET layers == LayerOrder(background, character_clips, text_clips)
            IN  /\ final_audio' = NewClip("audio", MaxEnd(audio_clips), 0, 0, -1)
                /\ all_clips' = layers
                /\ final_video' = set_duration(
                       NewClip("composite", MaxEnd(layers),
                               config.width, config.height, -1),
                       total_duration)
                /\ open_resources' = open_resources \cup {<<"final", -1>>}
                /\ pc' = "export"
                /\ UNCHANGED raised
    /\ UNCHANGED <<config, background_videos, audio_segments, character_videos,
                   total_duration, background, char_video_map, audio_clips,
                   text_clips, character_clips, current_time, idx,
                   output_file, call, ret, failed_stages>>
    /\ UNCHANGED <<pipeVars, uploadVars, batchVars>>

\* Lines 352-365: write_videofile writes straight to output_path; when the
\* encoder fails, what it wrote so far may or may not be left there.
Export ==
    /\ pc = "export"
    /\ \/ /\ output_file' = "complete"
          /\ pc' = "cleanup"
          /\ UNCHANGED <<raised, failed_stages>>
       \/ /\ output_file' \in {"absent", "partial"}
          /\ Raise("OSError")
          /\ failed_stages' = failed_stages \cup {"render"}
    /\ UNCHANGED <<config, background_videos, audio_segments, character_videos,
                   total_duration, background, char_video_map, audio_clips,
                   text_clips, character_clips, current_time, idx, all_clips,
                   final_audio, final_video, call, ret,
                   open_resources>>
    /\ UNCHANGED <<pipeVars, uploadVars, batchVars>>

\* What lines 369-377 close: final_video, background, every audio clip and
\* every character clip.
Closed(bg, audios, chars) ==
    {<<"final", -1>>, <<"background", -1>>}
      \cup {<<"audio", audios[k].seg>> : k \in 1..Len(audios)}
      \cup {<<"character", chars[k].seg>> : k \in 1..Len(chars)}

\* Lines 368-380: close the clips and return True.
Cleanup ==
    /\ pc = "cleanup"
    /\ open_resources' = open_resources \ Closed(background, audio_clips,
                                                  character_clips)
    /\ pc' = "done"
    /\ UNCHANGED <<config, background_videos, audio_segments, character_videos,
                   total_duration, background, char_video_map, audio_clips,
                   text_clips, character_clips, current_time, idx, all_clips,
                   final_audio, final_video, output_file, raised, call, ret,
                   failed_stages>>
    /\ UNCHANGED <<pipeVars, uploadVars, batchVars>>

Next ==
    \/ ComputeTotalDuration
    \/ GetBackground
    \/ BuildIndex
    \/ LoopSegment
    \/ CreateBadge
    \/ Composite
    \/ Export
    \/ Cleanup

Spec == Init /\ [][Next]_vars

SpecEstimated == InitEstimated /\ [][Next]_vars

\* ------------------------------------------- direct calls of the helpers
\* A freshly constructed VideoAssembler and one call of one of its helpers.
Configs == {VideoConfig} \cup [width : 1..MaxSide, height : 1..MaxSide]

InitHelpers ==
    /\ config \in Configs
    /\ background_videos \in {{}, Sources(SmallSizes \cup StockSizes)}
    /\ audio_segments = <<>>
    /\ character_videos = <<>>
    /\ Idle
    /\ PipelineIdle
    /\ UploadIdle
    /\ BatchIdle

\* self._get_background_clip(duration)
CallGetBackgroundClip ==
    /\ call = NoCall
    /\ \E duration \in 0..MaxCallDur, src \in BackgroundChoices(background_videos) :
          /\ call' = [fn |-> "_get_background_clip", duration |-> duration,
                      src |-> src]
          /\ ret' = [clip |-> _get_background_clip(background_videos, src,
                                                   duration, config),
                     locals |-> NoLocals]
    /\ UNCHANGED <<config, background_videos, audio_segments, character_videos>>
    /\ UNCHANGED asmVars
    /\ UNCHANGED <<pipeVars, uploadVars, batchVars>>

\* self._resize_and_crop(clip), clip being a freshly opened video file
CallResizeAndCrop ==
    /\ call = NoCall
    /\ \E src \in Sources(SmallSizes \cup StockSizes) :
          LET clip == NewClip("background", src.duration, src.w, src.h, -1)
          IN  /\ call' = [fn |-> "_resize_and_crop", duration |-> 0, src |-> src]
              /\ ret' = [clip |-> _resize_and_crop(clip, config),
                         locals |-> _resize_and_crop_locals(clip, config)]
    /\ UNCHANGED <<config, background_videos, audio_segments, character_videos>>
    /\ UNCHANGED asmVars
    /\ UNCHANGED <<pipeVars, uploadVars, batchVars>>

\* ---------------------------------------------------------------------
\* VideoAssembler._get_character_position (lines 199-217).
\* ---------------------------------------------------------------------

Anchors == {"bottom_right", "bottom_left", "top_right", "top_left",
            "center_bottom"}

_get_character_position_NoMargin(char_w, char_h, cfg, CHARACTER_POSITION) ==
    CASE CHARACTER_POSITION = "bottom_left" ->
            <<0, cfg.height - char_h>>
      [] CHARACTER_POSITION = "top_right" ->
            <<cfg.width - char_w, 60>>
      [] CHARACTER_POSITION = "top_left" ->
            <<200, 0>>
      [] CHARACTER_POSITION = "center_bottom" ->
            <<(cfg.width - char_w) \div 2, cfg.height - char_h>>
      [] OTHER ->
            <<cfg.width - char_w, cfg.height - char_h>>

_get_character_position(char_w, char_h, cfg, CHARACTER_POSITION) ==
    CASE CHARACTER_POSITION = "bottom_left" ->
            <<margin, cfg.height - char_h - margin>>
      [] CHARACTER_POSITION = "top_right" ->
            <<cfg.width - char_w - margin, margin + 60>>
      [] CHARACTER_POSITION = "top_left" ->
            <<margin + 200, margin>>
      [] CHARACTER_POSITION = "center_bottom" ->
            <<(cfg.width - char_w) \div 2, cfg.height - char_h - margin>>
      [] OTHER ->
            <<cfg.width - char_w - margin, cfg.height - char_h - margin>>

\* The values config.CHARACTER_POSITION is given: the anchors and one other.
CharacterPositions == Anchors \cup {"middle"}

\* The sizes of the character clip: the configured one and small ones.
CharSizes == {<<(VIDEO_WIDTH * CharWidthPercent) \div 100,
                (VIDEO_WIDTH * CharWidthPercent) \div 100>>}
                \cup ((1..2) \X (1..2))

\* self._get_character_position((char_w, char_h))
CallGetCharacterPosition ==
    /\ call = NoCall
    /\ \E size \in CharSizes, anchor \in CharacterPositions :
          /\ call' = [fn |-> "_get_character_position", size |-> size,
                      CHARACTER_POSITION |-> anchor]
          /\ ret' = [position |-> _get_character_position(size[1], size[2],
                                                          config, anchor)]
    /\ UNCHANGED <<config, background_videos, audio_segments, character_videos>>
    /\ UNCHANGED asmVars
    /\ UNCHANGED <<pipeVars, uploadVars, batchVars>>

NextHelpers ==
    \/ CallGetBackgroundClip
    \/ CallResizeAndCrop
    \/ CallGetCharacterPosition

SpecHelpers == InitHelpers /\ [][NextHelpers]_vars

\* ---------------------------------------------------------------------
\* RedditStoriesPipeline.run_full_pipeline (pipeline.py lines 83-236).
\* Each stage is one call; what the called component does inside is its
\* outcome: a value, nothing (None, an empty list, False) or an exception.
\* ---------------------------------------------------------------------

StoryIds == 1..MaxStories

\* results['errors'].append(msg)
AddError(res, msg) == [res EXCEPT !.errors = Append(@, msg)]

Record(stage, outcome) == Append(trace, [stage |-> stage, outcome |-> outcome])

\* Lines 220-223: the except clause around every stage appends str(e) and
\* falls through to the return; success stays False.
Except_NoMessage(stage) ==
    /\ results' = results
    /\ trace' = Record(stage, "raised")
    /\ p_pc' = "returned"

Except(stage) ==
    /\ results' = AddError(results, "exception")
    /\ trace' = Record(stage, "raised")
    /\ p_pc' = "returned"

\* Lines 108-120: what follows get_best_story. story = 0 stands for None.
AfterFetch_DryRunMarks(story, dry) ==
    IF story = 0 THEN "returned" ELSE IF dry THEN "mark_used" ELSE "script"

AfterFetch(story, dry) ==
    IF story = 0 THEN "returned" ELSE IF dry THEN "returned" ELSE "script"

\* Lines 139-148: what follows generate_all_audio, n segments long.
AfterAudio_IgnoreEmpty(n, enabled) ==
    IF enabled THEN "character" ELSE "assemble"

AfterAudio(n, enabled) ==
    IF n = 0 THEN "returned" ELSE IF enabled THEN "character" ELSE "assemble"

\* Lines 192-209: the upload runs only if requested.
AfterThumbnail(requested) == IF requested THEN "upload" ELSE "mark_used"

\* video_assembler.py lines 382-454: how create_thumbnail ends when the step
\* named by failing fails ("none": no step fails). Loading a background
\* file, cropping it and grabbing its frame (lines 390-395) happen before the
\* try, and only when the pool is not empty; the title, the badge, the
\* composite and the save are inside it (lines 412-454).
ThumbnailSteps(pool) ==
    (IF pool = {} THEN {} ELSE {"load", "crop", "frame"})
        \cup {"title", "badge", "composite", "save"}

create_thumbnail(failing) ==
    IF failing = "none" THEN "True"
    ELSE IF failing \in {"load", "crop", "frame"} THEN "raised"
    ELSE "False"

\* A run of run_full_pipeline is about to start.
InitPipeline ==
    /\ config = VideoConfig
    /\ background_videos \in {{}, StockPool}
    /\ audio_segments = <<>>
    /\ character_videos = <<>>
    /\ Idle
    /\ p_pc = "fetch"
    /\ dry_run \in BOOLEAN
    /\ enable_character \in BOOLEAN
    /\ upload \in BOOLEAN
    /\ results = InitialResults
    /\ trace = <<>>
    /\ thumbnail = "not_run"
    /\ used_stories \in SUBSET StoryIds
    /\ n_audio = 0
    /\ temp_files = "none"
    /\ UploadIdle
    /\ BatchIdle

\* What no stage of the pipeline changes.
PipelineFrame ==
    /\ UNCHANGED <<config, background_videos, audio_segments, character_videos,
                   call, ret, dry_run, enable_character, upload>>
    /\ UNCHANGED asmVars
    /\ UNCHANGED batchVars

\* What a stage other than the upload does not change either.
StageFrame ==
    /\ PipelineFrame
    /\ UNCHANGED uploadVars

\* Step 1, lines 106-120: get_best_story returns the best story that
\* is_valid_story accepts (its id is not in used_stories), or None.
FetchStory ==
    /\ p_pc = "fetch"
    /\ \E story \in (StoryIds \ used_stories) \cup {0} :
          /\ results' =
                IF story = 0
                THEN AddError(results, "No suitable stories found")
                ELSE [results EXCEPT !.story_id = story,
                                     !.success = dry_run]
          /\ trace' = Record("fetch", IF story = 0 THEN "nothing" ELSE "ok")
          /\ p_pc' = AfterFetch(story, dry_run)
    /\ UNCHANGED <<thumbnail, used_stories, n_audio, temp_files>>
    /\ StageFrame

\* Step 2, lines 124-132: generate_script and save_script.
GenerateScript ==
    /\ p_pc = "script"
    /\ \/ /\ trace' = Record("script", "ok")
          /\ p_pc' = "audio"
          /\ temp_files' = "present"
          /\ UNCHANGED results
       \/ /\ Except("script")
          /\ UNCHANGED temp_files
    /\ UNCHANGED <<thumbnail, used_stories, n_audio>>
    /\ StageFrame

\* Step 3, lines 136-143: generate_all_audio returns the segments whose
\* text-to-speech call succeeded, possibly none.
GenerateAudio ==
    /\ p_pc = "audio"
    /\ \/ \E n \in 0..MaxSegs :
             /\ results' = IF n = 0
                           THEN AddError(results, "Audio generation failed")
                           ELSE results
             /\ trace' = Record("audio", IF n = 0 THEN "nothing" ELSE "ok")
             /\ p_pc' = AfterAudio(n, enable_character)
             /\ n_audio' = n
       \/ /\ Except("audio")
          /\ UNCHANGED n_audio
    /\ UNCHANGED <<thumbnail, used_stories, temp_files>>
    /\ StageFrame

\* Step 4, lines 147-166: get_or_create_character and
\* generate_all_commentary_videos; an empty list is accepted.
GenerateCharacterVideos ==
    /\ p_pc = "character"
    /\ \/ /\ trace' = Record("character", "ok")
          /\ p_pc' = "assemble"
          /\ UNCHANGED results
       \/ Except("character")
    /\ UNCHANGED <<thumbnail, used_stories, n_audio, temp_files>>
    /\ StageFrame

\* Step 5, lines 170-185: assemble_video returns True or raises (it has no
\* other return), so the branch of lines 181-183 is never taken.
AssembleVideo ==
    /\ p_pc = "assemble"
    /\ \/ /\ results' = [results EXCEPT !.video_path = "output"]
          /\ trace' = Record("assemble", "ok")
          /\ p_pc' = "thumbnail"
       \/ Except("assemble")
    /\ UNCHANGED <<thumbnail, used_stories, n_audio, temp_files>>
    /\ StageFrame

\* Lines 188-189: create_thumbnail; its return value is not looked at, an
\* exception it lets out reaches the except clause.
CreateThumbnail ==
    /\ p_pc = "thumbnail"
    /\ \E failing \in {"none"} \cup ThumbnailSteps(background_videos) :
          LET outcome == create_thumbnail(failing)
          IN  /\ thumbnail' = outcome
              /\ IF outcome = "raised"
                 THEN Except("thumbnail")
                 ELSE /\ trace' = Record("thumbnail", outcome)
                      /\ p_pc' = AfterThumbnail(upload)
                      /\ UNCHANGED results
    /\ UNCHANGED <<used_stories, n_audio, temp_files>>
    /\ StageFrame

\* ---------------------------------------------------------------------
\* YouTubeUploader._resumable_upload (youtube_uploader.py lines 141-175).
\* One iteration of the while loop is the next_chunk call with its except
\* clauses (NextChunk), then the `if error:` block (HandleError).
\* ---------------------------------------------------------------------

RETRIABLE_STATUS_CODES == {500, 502, 503, 504}

\* The statuses an HttpError of next_chunk carries: the retriable ones and
\* two others.
HttpStatuses == RETRIABLE_STATUS_CODES \cup {400, 403}

\* str(e) of another exception: some text, or the empty string when the
\* exception was built without arguments.
ExceptionMessages == {"", "message"}

\* Line 156
IsRetriable_Always(status) == TRUE

IsRetriable(status) == status \in RETRIABLE_STATUS_CODES

\* `if error:` (line 164): None and the empty string are falsy.
Truthy(e) == e \notin {"None", ""}

Counted(n) == IF n < MaxFailures THEN n + 1 ELSE n

\* Lines 143-147: the locals when the loop is entered for an upload that
\* needs n more successful next_chunk calls.
EnterUpload(n) ==
    /\ u_pc' = "loop"
    /\ chunks_left' = n
    /\ response' = "None"
    /\ error' = "None"
    /\ retry' = 0
    /\ failures' = 0
    /\ sleeps' = 0
    /\ http_status' = 0

\* What _resumable_upload does not touch.
UploadFrame ==
    /\ UNCHANGED <<config, background_videos, audio_segments, character_videos,
                   call, ret>>
    /\ UNCHANGED asmVars
    /\ UNCHANGED pipeVars
    /\ UNCHANGED batchVars

\* Lines 147-162: `while response is None`, request.next_chunk() and the
\* except clauses. The last chunk's call returns the response.
NextChunk ==
    /\ u_pc = "loop"
    /\ \/ /\ chunks_left' = chunks_left - 1
          /\ response' = IF chunks_left = 1 THEN "response" ELSE "None"
          /\ u_pc' = "handle"
          /\ UNCHANGED <<error, failures, http_status>>
       \/ \E status \in HttpStatuses :
             /\ http_status' = status
             /\ IF IsRetriable(status)
                THEN /\ error' = "HTTP error"
                     /\ failures' = Counted(failures)
                     /\ u_pc' = "handle"
                ELSE /\ u_pc' = "raised"
                     /\ UNCHANGED <<error, failures>>
             /\ UNCHANGED <<chunks_left, response>>
       \/ \E msg \in ExceptionMessages :
             /\ error' = msg
             /\ failures' = Counted(failures)
             /\ http_status' = 0
             /\ u_pc' = "handle"
             /\ UNCHANGED <<chunks_left, response>>
    /\ UNCHANGED <<retry, sleeps>>
    /\ UploadFrame

\* Lines 164-175: count the error, give up after MAX_RETRIES or sleep and
\* clear it; then the loop test, and `return response`.
HandleError ==
    /\ u_pc = "handle"
    /\ IF Truthy(error)
       THEN /\ retry' = retry + 1
            /\ IF retry + 1 > MAX_RETRIES
               THEN /\ u_pc' = "returned"
                    /\ UNCHANGED <<error, sleeps>>
               ELSE /\ sleeps' = sleeps + 1
                    /\ error' = "None"
                    /\ u_pc' = "loop"
       ELSE /\ u_pc' = IF response = "None" THEN "loop" ELSE "returned"
            /\ UNCHANGED <<retry, error, sleeps>>
    /\ UNCHANGED <<chunks_left, response, failures, http_status>>
    /\ UploadFrame

\* One call of _resumable_upload for an upload of 1..MaxChunks chunks.
InitUpload ==
    /\ config = VideoConfig
    /\ background_videos = {}
    /\ audio_segments = <<>>
    /\ character_videos = <<>>
    /\ Idle
    /\ PipelineIdle
    /\ u_pc = "loop"
    /\ chunks_left \in 1..MaxChunks
    /\ response = "None"
    /\ error = "None"
    /\ retry = 0
    /\ failures = 0
    /\ sleeps = 0
    /\ http_status = 0
    /\ BatchIdle

NextUpload ==
    \/ NextChunk
    \/ HandleError

SpecUpload == InitUpload /\ [][NextUpload]_vars

\* The interpreter keeps running the loop: an iteration that can be taken
\* is taken.
SpecUploadFair == SpecUpload /\ WF_vars(NextUpload)

\* Step 6, lines 192-201: UploadManager(), upload_from_script and
\* upload_video up to the _resumable_upload call; the authentication and the
\* check that the video file exists can raise.
StartUpload ==
    /\ p_pc = "upload"
    /\ \/ /\ \E n \in 1..MaxChunks : EnterUpload(n)
          /\ p_pc' = "uploading"
          /\ UNCHANGED <<results, trace>>
       \/ /\ Except("upload")
          /\ UNCHANGED uploadVars
    /\ UNCHANGED <<thumbnail, used_stories, n_audio, temp_files>>
    /\ PipelineFrame

\* Lines 196-207: what _resumable_upload returned or raised comes back
\* through upload_video and upload_from_script: the response, None after too
\* many retries, or the exception.
Upload ==
    /\ p_pc = "uploading"
    /\ u_pc \in {"returned", "raised"}
    /\ IF u_pc = "raised"
       THEN Except("upload")
       ELSE IF response # "None"
       THEN /\ results' = [results EXCEPT !.youtube_id = 1]
            /\ trace' = Record("upload", "ok")
            /\ p_pc' = "mark_used"
       ELSE /\ results' = AddError(results, "YouTube upload failed")
            /\ trace' = Record("upload", "nothing")
            /\ p_pc' = "mark_used"
    /\ UNCHANGED <<thumbnail, used_stories, n_audio, temp_files>>
    /\ StageFrame

\* Line 212 and reddit_scraper.py lines 67-70: mark_as_used adds the id, then
\* writes the archive file, which can fail.
MarkAsUsed ==
    /\ p_pc = "mark_used"
    /\ used_stories' = used_stories \cup {results.story_id}
    /\ \/ /\ trace' = Record("mark_used", "ok")
          /\ p_pc' = "cleanup_temp"
          /\ UNCHANGED results
       \/ Except("mark_used")
    /\ UNCHANGED <<thumbnail, n_audio, temp_files>>
    /\ StageFrame

\* Lines 216-218: _cleanup_temp removes the story's temporary files, then
\* success is set.
CleanupTemp ==
    /\ p_pc = "cleanup_temp"
    /\ \/ /\ results' = [results EXCEPT !.success = TRUE]
          /\ trace' = Record("cleanup_temp", "ok")
          /\ p_pc' = "returned"
          /\ temp_files' = "removed"
       \/ /\ Except("cleanup_temp")
          /\ UNCHANGED temp_files
    /\ UNCHANGED <<thumbnail, used_stories, n_audio>>
    /\ StageFrame

NextPipeline ==
    \/ FetchStory
    \/ GenerateScript
    \/ GenerateAudio
    \/ GenerateCharacterVideos
    \/ AssembleVideo
    \/ CreateThumbnail
    \/ StartUpload
    \/ NextChunk
    \/ HandleError
    \/ Upload
    \/ MarkAsUsed
    \/ CleanupTemp

SpecPipeline == InitPipeline /\ [][NextPipeline]_vars

\* ---------------------------------------------------------------------
\* VideoAssembler._create_text_clip seen from its text and styling
\* (video_assembler.py lines 113-177). A text is the sequence of the lengths
\* of its words (no hyphen in them); a line is the sequence of the lengths
\* of the pieces on it, one space between two pieces.
\* ---------------------------------------------------------------------

SegmentTypes == {"intro", "story", "commentary", "outro"}
Voices == {"narrator", "commentator"}
WordLens == {12, 20, 80}
Texts == UNION { [1..n -> WordLens] : n \in 0..MaxWords }

\* set_position("center") and ("center", "center"): both axes centred.
ScreenCenter == [x |-> "center", y |-> "center", y_4 |-> 0]

\* set_position(("center", y)): the top edge y pixels down; y_4 is 4 * y.
CenteredAt(y_4) == [x |-> "center", y |-> "pixels", y_4 |-> y_4]

\* Lines 123-137: the styling chosen from segment_type and voice.
TextStyle(segment_type, voice, cfg) ==
    IF segment_type = "intro" \/ segment_type = "outro"
    THEN [font_size |-> FONT_SIZE_TITLE, color |-> "white",
          position |-> ScreenCenter, max_width |-> 30]
    ELSE IF voice = "commentator"
    THEN [font_size |-> FONT_SIZE_COMMENTARY, color |-> "#FFD700",
          position |-> CenteredAt(3 * cfg.height), max_width |-> 35]
    ELSE [font_size |-> FONT_SIZE_STORY, color |-> "white",
          position |-> ScreenCenter, max_width |-> 35]

\* textwrap.fill(text, width=max_width), line 140: words are put on the
\* current line while they fit; a word longer than the width is cut, its
\* first part filling what is left of the current line.
RECURSIVE WrapFrom(_, _, _, _)
WrapFrom(chunks, cur_line, cur_len, width) ==
    IF chunks = <<>>
    THEN IF cur_line = <<>> THEN <<>> ELSE <<cur_line>>
    ELSE LET l == Head(chunks)
             used == IF cur_line = <<>> THEN 0 ELSE cur_len + 1
             space_left == width - used
         IN  IF used + l <= width
             THEN WrapFrom(Tail(chunks), Append(cur_line, l), used + l, width)
             ELSE IF l > width /\ space_left >= 1
             THEN <<Append(cur_line, space_left)>>
                    \o WrapFrom(<<l - space_left>> \o Tail(chunks), <<>>, 0, width)
             ELSE <<cur_line>> \o WrapFrom(chunks, <<>>, 0, width)

\* wrapped_text.split('\n'), line 143: an empty text is one empty line.
fill(text, width) ==
    LET wrapped == WrapFrom(text, <<>>, 0, width)
    IN  IF wrapped = <<>> THEN << <<>> >> ELSE wrapped

\* Lines 143-147: keep 8 lines and put "..." at the end of the 8th.
Truncate_FromEight(lines) ==
    IF Len(lines) >= max_lines
    THEN [k \in 1..max_lines |->
            [pieces |-> lines[k], ellipsis |-> (k = max_lines)]]
    ELSE [k \in 1..Len(lines) |-> [pieces |-> lines[k], ellipsis |-> FALSE]]

Truncate(lines) ==
    IF Len(lines) > max_lines
    THEN [k \in 1..max_lines |->
            [pieces |-> lines[k], ellipsis |-> (k = max_lines)]]
    ELSE [k \in 1..Len(lines) |-> [pieces |-> lines[k], ellipsis |-> FALSE]]

\* Lines 149-177: the styled TextClip, or, when building it raises, the
\* fallback TextClip, which keeps font size and color and is placed with
\* set_position("center"); when the fallback raises too, the exception leaves
\* _create_text_clip.
TextClip(text, segment_type, voice, built, cfg) ==
    LET style == TextStyle(segment_type, voice, cfg)
    IN  [built |-> built,
         font_size |-> style.font_size,
         color |-> style.color,
         position |-> IF built = "styled" THEN style.position ELSE ScreenCenter,
         wrapped |-> fill(text, style.max_width),
         lines |-> Truncate(fill(text, style.max_width))]

\* One call of _create_text_clip on a fresh assembler.
InitCaption ==
    /\ config = VideoConfig
    /\ background_videos = {}
    /\ audio_segments = <<>>
    /\ character_videos = <<>>
    /\ Idle
    /\ PipelineIdle
    /\ UploadIdle
    /\ BatchIdle

\* self._create_text_clip(text, duration, segment_type, voice)
CallCreateTextClip ==
    /\ call = NoCall
    /\ \E text \in Texts, segment_type \in SegmentTypes, voice \in Voices,
          built \in {"styled", "fallback", "raised"} :
          /\ call' = [fn |-> "_create_text_clip", text |-> text,
                      segment_type |-> segment_type, voice |-> voice]
          /\ ret' = IF built = "raised" THEN [built |-> "raised"]
                    ELSE TextClip(text, segment_type, voice, built, config)
    /\ UNCHANGED <<config, background_videos, audio_segments, character_videos>>
    /\ UNCHANGED asmVars
    /\ UNCHANGED <<pipeVars, uploadVars, batchVars>>

NextCaption == CallCreateTextClip

SpecCaption == InitCaption /\ [][NextCaption]_vars

\* ---------------------------------------------------------------------
\* AudioGenerator.generate_all_audio (audio_generator.py lines 83-119) and
\* CharacterGenerator.generate_all_commentary_videos (character_generator.py
\* lines 207-294), each as one call.
\* ---------------------------------------------------------------------

\* The segments a script is made of: a type with the voice that speaks it,
\* and one of two texts.
ScriptSegments ==
    [type : {"intro", "story", "outro"}, voice : {"narrator"}, text : 1..2]
      \cup [type : {"commentary"}, voice : {"commentator"}, text : 1..2]

Scripts == UNION { [1..n -> ScriptSegments] : n \in 0..MaxScript }

\* Line 95: segment_{i:03d}_{type}_{voice}.mp3
AudioPath(i, segment) == <<i, segment.type, segment.voice>>

\* Lines 91-116, from the segment at position i (0-based) on: tts_ok[i + 1]
\* is what generate_audio returned for it, durs[i + 1] what
\* _get_audio_duration measured.
RECURSIVE AudioFrom_StopAtFailure(_, _, _, _)
AudioFrom_StopAtFailure(script, i, tts_ok, durs) ==
    IF i >= Len(script) THEN <<>>
    ELSE LET segment == script[i + 1]
         IN  IF tts_ok[i + 1]
             THEN <<[segment_index |-> i,
                     segment_type |-> segment.type,
                     voice |-> segment.voice,
                     text |-> segment.text,
                     audio_path |-> AudioPath(i, segment),
                     duration |-> durs[i + 1]]>>
                    \o AudioFrom_StopAtFailure(script, i + 1, tts_ok, durs)
             ELSE <<>>

RECURSIVE AudioFrom(_, _, _, _)
AudioFrom(script, i, tts_ok, durs) ==
    IF i >= Len(script) THEN <<>>
    ELSE LET segment == script[i + 1]
             rest == AudioFrom(script, i + 1, tts_ok, durs)
         IN  IF tts_ok[i + 1]
             THEN <<[segment_index |-> i,
                     segment_type |-> segment.type,
                     voice |-> segment.voice,
                     text |-> segment.text,
                     audio_path |-> AudioPath(i, segment),
                     duration |-> durs[i + 1]]>> \o rest
             ELSE rest

generate_all_audio(script, tts_ok, durs) == AudioFrom(script, 0, tts_ok, durs)

\* character_generator.py lines 222-225
commentary_segments_AnyVoice(audio) == audio

commentary_segments(audio) ==
    SelectSeq(audio, LAMBDA seg : seg.voice = "commentator")

\* Lines 233-266 and 272-291: both branches append one CharacterVideo for
\* each commentary segment whose video generation returned True
\* (video_ok[k], k the position among the commentary segments).
RECURSIVE VideosFrom(_, _, _)
VideosFrom(segs, k, video_ok) ==
    IF k > Len(segs) THEN <<>>
    ELSE LET audio_seg == segs[k]
             rest == VideosFrom(segs, k + 1, video_ok)
         IN  IF video_ok[k]
             THEN <<[segment_index |-> audio_seg.segment_index,
                     audio_path |-> audio_seg.audio_path,
                     video_path |-> <<"character", audio_seg.segment_index>>,
                     duration |-> audio_seg.duration]>> \o rest
             ELSE rest

generate_all_commentary_videos(audio, video_ok) ==
    VideosFrom(commentary_segments(audio), 1, video_ok)

\* Nothing has been generated yet.
InitGenerators ==
    /\ config = VideoConfig
    /\ background_videos = {}
    /\ audio_segments = <<>>
    /\ character_videos = <<>>
    /\ Idle
    /\ PipelineIdle
    /\ UploadIdle
    /\ BatchIdle

\* self.audio_gen.generate_all_audio(script, audio_dir)
CallGenerateAllAudio ==
    /\ call = NoCall
    /\ \E script \in Scripts :
       \E tts_ok \in [1..Len(script) -> BOOLEAN],
          durs \in [1..Len(script) -> 1..MaxDur] :
          /\ call' = [fn |-> "generate_all_audio", script |-> script,
                      tts_ok |-> tts_ok]
          /\ ret' = [audio_segments |-> generate_all_audio(script, tts_ok, durs)]
    /\ UNCHANGED <<config, background_videos, audio_segments, character_videos>>
    /\ UNCHANGED asmVars
    /\ UNCHANGED <<pipeVars, uploadVars, batchVars>>

\* self.char_generator.generate_all_commentary_videos(audio_segments, dir),
\* audio_segments being what generate_all_audio returned.
CallGenerateAllCommentaryVideos ==
    /\ call = NoCall
    /\ \E script \in Scripts :
       \E tts_ok \in [1..Len(script) -> BOOLEAN],
          video_ok \in [1..Len(script) -> BOOLEAN] :
          LET audio == generate_all_audio(script, tts_ok,
                                          [k \in 1..Len(script) |-> 1])
          IN  /\ call' = [fn |-> "generate_all_commentary_videos",
                          audio_segments |-> audio, video_ok |-> video_ok]
              /\ ret' = [character_videos |->
                            generate_all_commentary_videos(audio, video_ok)]
    /\ UNCHANGED <<config, background_videos, audio_segments, character_videos>>
    /\ UNCHANGED asmVars
    /\ UNCHANGED <<pipeVars, uploadVars, batchVars>>

NextGenerators ==
    \/ CallGenerateAllAudio
    \/ CallGenerateAllCommentaryVideos

SpecGenerators == InitGenerators /\ [][NextGenerators]_vars

\* ---------------------------------------------------------------------
\* RedditScraper (reddit_scraper.py): used_stories, mark_as_used,
\* is_valid_story and the three fetches, each as one call on one scraper.
\* A submission is its id, whether it passes the checks of lines 96-117, and
\* its engagement (score + 10 * num_comments).
\* ---------------------------------------------------------------------

Submissions == [id : StoryIds, acceptable : BOOLEAN, engagement : 1..2]

\* What the subreddits list at one fetch, in the order the loops of lines
\* 129-146 meet them: submissions with distinct ids.
Listings ==
    { l \in UNION { [1..n -> Submissions] : n \in 0..MaxStories } :
        \A j, k \in 1..Len(l) : l[j].id = l[k].id => j = k }

\* Lines 89-123
is_valid_story_IgnoreUsed(submission, used) == submission.acceptable

is_valid_story(submission, used) ==
    IF submission.id \in used THEN FALSE ELSE submission.acceptable

\* list.sort(key=engagement, reverse=True), line 153: stable.
RECURSIVE InsertSorted(_, _)
InsertSorted(story, sorted) ==
    IF sorted = <<>> THEN <<story>>
    ELSE IF Head(sorted).engagement >= story.engagement
    THEN <<Head(sorted)>> \o InsertSorted(story, Tail(sorted))
    ELSE <<story>> \o sorted

RECURSIVE SortByEngagement(_)
SortByEngagement(stories) ==
    IF stories = <<>> THEN <<>>
    ELSE InsertSorted(stories[Len(stories)],
                      SortByEngagement(SubSeq(stories, 1, Len(stories) - 1)))

\* Lines 125-156
fetch_stories(listing, used) ==
    SortByEngagement(SelectSeq(listing, LAMBDA sub : is_valid_story(sub, used)))

\* Lines 173-178: None is <<>> here, a story is a one-entry list.
get_best_story(listing, used) ==
    LET stories == fetch_stories(listing, used)
    IN  IF stories # <<>> THEN <<stories[1]>> ELSE <<>>

\* Lines 180-183
get_stories_batch(listing, used, count) ==
    LET stories == fetch_stories(listing, used)
    IN  SubSeq(stories, 1, Min(count, Len(stories)))

\* A scraper has been built and has loaded its archive (lines 44-59).
InitScraper ==
    /\ config = VideoConfig
    /\ background_videos = {}
    /\ audio_segments = <<>>
    /\ character_videos = <<>>
    /\ Idle
    /\ RunIdle
    /\ UploadIdle
    /\ BatchIdle
    /\ used_stories \in SUBSET StoryIds

ScraperFrame ==
    /\ UNCHANGED <<config, background_videos, audio_segments, character_videos>>
    /\ UNCHANGED asmVars
    /\ UNCHANGED <<p_pc, dry_run, enable_character, upload, results, trace,
                   thumbnail, n_audio, temp_files>>
    /\ UNCHANGED uploadVars
    /\ UNCHANGED batchVars

\* scraper.mark_as_used(story_id), lines 67-70
CallMarkAsUsed ==
    /\ call = NoCall
    /\ \E story_id \in StoryIds :
          /\ call' = [fn |-> "mark_as_used", used |-> used_stories,
                      story_id |-> story_id]
          /\ used_stories' = used_stories \cup {story_id}
          /\ ret' = [stories |-> <<>>, valid |-> FALSE]
    /\ ScraperFrame

\* scraper.is_valid_story(submission)
CallIsValidStory ==
    /\ call = NoCall
    /\ \E submission \in Submissions :
          /\ call' = [fn |-> "is_valid_story", used |-> used_stories,
                      submission |-> submission]
          /\ ret' = [stories |-> <<>>,
                     valid |-> is_valid_story(submission, used_stories)]
    /\ UNCHANGED used_stories
    /\ ScraperFrame

\* scraper.fetch_stories()
CallFetchStories ==
    /\ call = NoCall
    /\ \E listing \in Listings :
          /\ call' = [fn |-> "fetch_stories", used |-> used_stories,
                      listing |-> listing]
          /\ ret' = [stories |-> fetch_stories(listing, used_stories),
                     valid |-> FALSE]
    /\ UNCHANGED used_stories
    /\ ScraperFrame

\* scraper.get_best_story()
CallGetBestStory ==
    /\ call = NoCall
    /\ \E listing \in Listings :
          /\ call' = [fn |-> "get_best_story", used |-> used_stories,
                      listing |-> listing]
          /\ ret' = [stories |-> get_best_story(listing, used_stories),
                     valid |-> FALSE]
    /\ UNCHANGED used_stories
    /\ ScraperFrame

\* scraper.get_stories_batch(count)
CallGetStoriesBatch ==
    /\ call = NoCall
    /\ \E listing \in Listings, count \in 1..MaxStories :
          /\ call' = [fn |-> "get_stories_batch", used |-> used_stories,
                      listing |-> listing, count |-> count]
          /\ ret' = [stories |-> get_stories_batch(listing, used_stories, count),
                     valid |-> FALSE]
    /\ UNCHANGED used_stories
    /\ ScraperFrame

\* The caller has taken the result; the scraper waits for its next call.
ScraperReturn ==
    /\ call # NoCall
    /\ call' = NoCall
    /\ ret' = NoReturn
    /\ UNCHANGED used_stories
    /\ ScraperFrame

NextScraper ==
    \/ ScraperReturn
    \/ CallMarkAsUsed
    \/ CallIsValidStory
    \/ CallFetchStories
    \/ CallGetBestStory
    \/ CallGetStoriesBatch

SpecScraper == InitScraper /\ [][NextScraper]_vars

\* ---------------------------------------------------------------------
\* RedditStoriesPipeline.batch_process and process_single_story
\* (pipeline.py lines 254-353). process_single_story runs where p_pc is one
\* of the "s_..." positions; its result dict is `results`.
\* ---------------------------------------------------------------------

\* reddit_scraper.py lines 67-70: the set after mark_as_used(story_id).
mark_as_used_Forgets(used, story_id) == used

mark_as_used(used, story_id) == used \cup {story_id}

\* The ids of a list of stories.
Ids(stories) == [k \in 1..Len(stories) |-> stories[k].id]

\* Lines 305-311: what follows generate_all_audio in process_single_story.
SingleAfterAudio_IgnoreEmpty(n, enabled) ==
    IF enabled THEN "s_character" ELSE "s_assemble"

SingleAfterAudio(n, enabled) ==
    IF n = 0 THEN "returned"
    ELSE IF enabled THEN "s_character" ELSE "s_assemble"

\* Line 337: `if upload and success` after an assembly that returned.
AfterAssembly(requested) == IF requested THEN "s_upload" ELSE "s_cleanup"

\* How a call of upload_from_script can end.
UploadOutcomes == {"response", "None", "raised"}

\* batch_process has been called on a pipeline whose scraper has loaded its
\* archive.
InitBatch ==
    /\ config = VideoConfig
    /\ background_videos \in {{}, StockPool}
    /\ audio_segments = <<>>
    /\ character_videos = <<>>
    /\ Idle
    /\ p_pc = "idle"
    /\ dry_run = FALSE
    /\ enable_character \in BOOLEAN
    /\ upload \in BOOLEAN
    /\ results = InitialResults
    /\ trace = <<>>
    /\ thumbnail = "not_run"
    /\ used_stories \in SUBSET StoryIds
    /\ n_audio = 0
    /\ temp_files = "none"
    /\ UploadIdle
    /\ b_pc = "fetch"
    /\ batch_stories = <<>>
    /\ b_idx = 0
    /\ b_results = <<>>

\* What neither batch_process nor process_single_story changes.
BatchFrame ==
    /\ UNCHANGED <<config, background_videos, audio_segments, character_videos,
                   call, ret, dry_run, enable_character, upload, thumbnail>>
    /\ UNCHANGED asmVars

\* What a stage of process_single_story does not change either.
SingleFrame ==
    /\ BatchFrame
    /\ UNCHANGED <<used_stories, uploadVars, batchVars>>

\* Lines 259-260: results = [], stories = get_stories_batch(count).
BatchFetch ==
    /\ b_pc = "fetch"
    /\ \E listing \in Listings, count \in 1..MaxStories :
          batch_stories' = Ids(get_stories_batch(listing, used_stories, count))
    /\ b_idx' = 1
    /\ b_results' = <<>>
    /\ b_pc' = "loop"
    /\ UNCHANGED <<p_pc, results, trace, n_audio, temp_files, used_stories>>
    /\ UNCHANGED uploadVars
    /\ BatchFrame

\* Lines 262 and 267, 287-293: the next story of the list is handed to
\* process_single_story, which builds its result dict.
BeginStory ==
    /\ b_pc = "loop"
    /\ b_idx <= Len(batch_stories)
    /\ b_pc' = "processing"
    /\ results' = [InitialResults EXCEPT !.story_id = batch_stories[b_idx]]
    /\ trace' = <<>>
    /\ n_audio' = 0
    /\ temp_files' = "none"
    /\ p_pc' = "s_script"
    /\ UNCHANGED <<batch_stories, b_idx, b_results, used_stories>>
    /\ UNCHANGED uploadVars
    /\ BatchFrame

\* Line 298: generate_script.
SingleScript ==
    /\ p_pc = "s_script"
    /\ \/ /\ trace' = Record("script", "ok")
          /\ p_pc' = "s_audio"
          /\ UNCHANGED results
       \/ Except("script")
    /\ UNCHANGED <<n_audio, temp_files>>
    /\ SingleFrame

\* Lines 302-307: generate_all_audio creates the audio directory and returns
\* the segments whose audio was generated.
SingleAudio ==
    /\ p_pc = "s_audio"
    /\ \/ \E n \in 0..MaxSegs :
             /\ results' = IF n = 0
                           THEN AddError(results, "Audio generation failed")
                           ELSE results
             /\ trace' = Record("audio", IF n = 0 THEN "nothing" ELSE "ok")
             /\ p_pc' = SingleAfterAudio(n, enable_character)
             /\ n_audio' = n
             /\ temp_files' = "present"
       \/ /\ Except("audio")
          /\ UNCHANGED <<n_audio, temp_files>>
    /\ SingleFrame

\* Lines 310-318: get_or_create_character and
\* generate_all_commentary_videos.
SingleCharacterVideos ==
    /\ p_pc = "s_character"
    /\ \/ /\ trace' = Record("character", "ok")
          /\ p_pc' = "s_assemble"
          /\ UNCHANGED results
       \/ Except("character")
    /\ UNCHANGED <<n_audio, temp_files>>
    /\ SingleFrame

\* Lines 321-334: assemble_video returns True or raises; video_path and
\* success are set as soon as it has returned.
SingleAssemble ==
    /\ p_pc = "s_assemble"
    /\ \/ /\ results' = [results EXCEPT !.video_path = "output",
                                        !.success = TRUE]
          /\ trace' = Record("assemble", "ok")
          /\ p_pc' = AfterAssembly(upload)
       \/ Except("assemble")
    /\ UNCHANGED <<n_audio, temp_files>>
    /\ SingleFrame

\* Lines 337-345: UploadManager() and upload_from_script, taken as one step
\* by what _resumable_upload (NextChunk, HandleError above) hands back when
\* it ends: the response, None after too many counted failures, or an
\* exception, which authenticate and upload_video can raise too. None adds
\* no error here.
SingleUpload ==
    /\ p_pc = "s_upload"
    /\ \E outcome \in UploadOutcomes :
          IF outcome = "raised"
          THEN Except("upload")
          ELSE /\ results' = IF outcome = "response"
                             THEN [results EXCEPT !.youtube_id = 1]
                             ELSE results
               /\ trace' = Record("upload",
                                  IF outcome = "response" THEN "ok" ELSE "nothing")
               /\ p_pc' = "s_cleanup"
    /\ UNCHANGED <<n_audio, temp_files>>
    /\ SingleFrame

\* Line 348: _cleanup_temp.
SingleCleanup ==
    /\ p_pc = "s_cleanup"
    /\ \/ /\ trace' = Record("cleanup_temp", "ok")
          /\ p_pc' = "returned"
          /\ temp_files' = "removed"
          /\ UNCHANGED results
       \/ /\ Except("cleanup_temp")
          /\ UNCHANGED temp_files
    /\ UNCHANGED n_audio
    /\ SingleFrame

\* Lines 267-271: process_single_story has returned; its result is appended
\* and the story marked as used. mark_as_used adds the id, then writes the
\* archive file; if that fails the exception leaves batch_process.
EndStory ==
    /\ b_pc = "processing"
    /\ p_pc = "returned"
    /\ b_results' = Append(b_results, results)
    /\ used_stories' = mark_as_used(used_stories, batch_stories[b_idx])
    /\ \/ /\ b_idx' = b_idx + 1
          /\ b_pc' = "loop"
       \/ /\ b_pc' = "raised"
          /\ UNCHANGED b_idx
    /\ p_pc' = "idle"
    /\ UNCHANGED <<batch_stories, results, trace, n_audio, temp_files>>
    /\ UNCHANGED uploadVars
    /\ BatchFrame

\* Lines 273-277: the list is exhausted; the summary, `return results`.
BatchReturn ==
    /\ b_pc = "loop"
    /\ b_idx > Len(batch_stories)
    /\ b_pc' = "returned"
    /\ UNCHANGED <<batch_stories, b_idx, b_results, used_stories>>
    /\ UNCHANGED <<p_pc, results, trace, n_audio, temp_files>>
    /\ UNCHANGED uploadVars
    /\ BatchFrame

NextBatch ==
    \/ BatchFetch
    \/ BeginStory
    \/ SingleScript
    \/ SingleAudio
    \/ SingleCharacterVideos
    \/ SingleAssemble
    \/ SingleUpload
    \/ SingleCleanup
    \/ EndStory
    \/ BatchReturn

SpecBatch == InitBatch /\ [][NextBatch]_vars

\* Either entry point of the pipeline: one run_full_pipeline call or one
\* batch_process call.
InitRuns ==
    \/ InitPipeline
    \/ InitBatch

NextRuns ==
    \/ FetchStory
    \/ GenerateScript
    \/ GenerateAudio
    \/ GenerateCharacterVideos
    \/ AssembleVideo
    \/ CreateThumbnail
    \/ StartUpload
    \/ NextChunk
    \/ HandleError
    \/ Upload
    \/ MarkAsUsed
    \/ CleanupTemp
    \/ NextBatch

SpecRuns == InitRuns /\ [][NextRuns]_vars

\* ------------------------------------------------------------- properties
\* The timeline the specification prescribes, computed from the recorded
\* durations alone: segment k starts after the k-1 segments before it and
\* the k-1 gaps of 0.3 s (3 units) between them.
RECURSIVE DurationsBefore(_)
DurationsBefore(k) ==
    IF k <= 1 THEN 0
    ELSE DurationsBefore(k - 1) + audio_segments[k - 1].duration

SlotStart(k) == DurationsBefore(k) + 3 * (k - 1)
SlotEnd(k) == SlotStart(k) + audio_segments[k].duration

NumSegs == Len(audio_segments)

Captions == SelectSeq(text_clips, LAMBDA c : c.kind = "caption")

PosOf(segment_index) ==
    CHOOSE k \in 1..NumSegs : audio_segments[k].segment_index = segment_index

\* C1: for a non-empty list of audio segments, total_duration is the sum of
\* the durations plus 0.3 s for each of the n-1 gaps, and the background layer
\* and the final video both get exactly this duration.
C1_TotalDuration ==
    NumSegs > 0 =>
        /\ pc # "start" =>
              total_duration = DurationsBefore(NumSegs + 1) + 3 * (NumSegs - 1)
        /\ background # NoClip =>
              /\ background.duration = total_duration
              /\ background.end = total_duration
        /\ final_video # NoClip =>
              /\ final_video.duration = total_duration
              /\ final_video.end = total_duration

C1_Witness ==
    /\ pc = "done"
    /\ NumSegs = 2
    /\ background.kind = "background"
    /\ final_video.duration = total_duration
    /\ total_duration = DurationsBefore(3) + 3

\* C2: the first segment starts at 0, each next one starts at the previous
\* start plus the previous duration plus the gap, no segment window runs past
\* total_duration and the last one ends exactly at total_duration.
C2_Timeline ==
    /\ pc = "loop" => current_time = SlotStart(idx)
    /\ \A k \in 1..Len(audio_clips) :
          /\ k = 1 => audio_clips[k].start = 0
          /\ k > 1 => /\ audio_clips[k].start =
                           audio_clips[k - 1].start
                             + audio_segments[k - 1].duration + 3
                      /\ audio_clips[k].start >=
                           audio_clips[k - 1].start
                             + audio_segments[k - 1].duration
          /\ audio_clips[k].start + audio_segments[k].duration <= total_duration
          /\ k = NumSegs =>
                audio_clips[k].start + audio_segments[k].duration = total_duration
    /\ \A k \in 1..Len(Captions) :
          /\ Captions[k].start = audio_clips[k].start
          /\ Captions[k].end <= total_duration

C2_Witness ==
    /\ pc = "composite"
    /\ Len(audio_clips) = 2
    /\ audio_clips[1].start = 0
    /\ audio_clips[2].start = audio_segments[1].duration + 3
    /\ audio_clips[2].start + audio_segments[2].duration = total_duration

\* C3: the caption layer and the audio clip of every processed segment are
\* placed at the segment's timeline start, and the caption lasts exactly the
\* segment's audio duration: it is active during [start, start + duration).
C3_CaptionWindow ==
    /\ \A k \in 1..Len(audio_clips) :
          /\ audio_clips[k].seg = audio_segments[k].segment_index
          /\ audio_clips[k].start = SlotStart(k)
    /\ \A k \in 1..Len(Captions) :
          /\ Captions[k].seg = audio_segments[k].segment_index
          /\ Captions[k].start = SlotStart(k)
          /\ Captions[k].duration = audio_segments[k].duration
          /\ Captions[k].end = SlotEnd(k)

C3_Witness ==
    /\ Len(Captions) = 2
    /\ Len(audio_clips) = 2
    /\ Captions[2].start = SlotStart(2)
    /\ Captions[2].end = SlotEnd(2)
    /\ audio_segments[1].duration # audio_segments[2].duration

\* C4: no segment's audio extends past its own slot: every placed audio clip
\* ends no later than its segment's start plus recorded duration, hence
\* before the next clip starts and no later than total_duration.
C4_AudioWithinSlot ==
    \A k \in 1..Len(audio_clips) :
        /\ audio_clips[k].end <= SlotEnd(k)
        /\ audio_clips[k].end <= total_duration
        /\ k < Len(audio_clips) => audio_clips[k].end <= audio_clips[k + 1].start

\* C5: every character layer starts at its segment's timeline start and
\* lasts min(native clip duration, segment duration): it is not looped or
\* stretched and never runs past the segment's start + duration.
C5_CharacterWindow ==
    \A j \in 1..Len(character_clips) :
        LET c == character_clips[j]
            k == PosOf(c.seg)
        IN  /\ c.kind = "character"
            /\ c.start = SlotStart(k)
            /\ c.loops = 1
            /\ c.duration =
                 IF c.footage <= audio_segments[k].duration
                 THEN c.footage ELSE audio_segments[k].duration
            /\ c.end = c.start + c.duration
            /\ c.end <= SlotEnd(k)

C5_Witness ==
    \E j \in 1..Len(character_clips) :
        LET c == character_clips[j]
        IN  /\ c.footage < audio_segments[PosOf(c.seg)].duration
            /\ c.duration = c.footage
            /\ c.start > 0

\* C6: the composited layer list is, bottom to top, the background, then the
\* character layers, then the badge, then the captions.
Rank(clip) ==
    CASE clip.kind \in {"background", "color"} -> 0
      [] clip.kind = "character" -> 1
      [] clip.kind = "badge" -> 2
      [] clip.kind = "caption" -> 3
      [] OTHER -> 4

C6_LayerOrder ==
    all_clips # <<>> =>
        /\ all_clips[1] = background
        /\ Len(all_clips) = 1 + Len(character_clips) + Len(text_clips)
        /\ \A i \in 1..Len(all_clips) :
              /\ Rank(all_clips[i]) <= 3
              /\ i > 1 => Rank(all_clips[i]) >= 1
              /\ \A j \in 1..Len(all_clips) :
                    i < j => Rank(all_clips[i]) <= Rank(all_clips[j])
        /\ \A j \in 1..Len(character_clips) :
              all_clips[1 + j] = character_clips[j]
        /\ \A j \in 1..Len(text_clips) :
              all_clips[1 + Len(character_clips) + j] = text_clips[j]

C6_Witness ==
    /\ Len(all_clips) = 5
    /\ Rank(all_clips[1]) = 0
    /\ Rank(all_clips[2]) = 1
    /\ Rank(all_clips[3]) = 2
    /\ Rank(all_clips[4]) = 3
    /\ Rank(all_clips[5]) = 3

\* C7: a background source of duration s asked to cover D > s is looped
\* int(D / s) + 1 whole times, which covers D, and trimmed from 0 to exactly
\* D; a source with s >= D is not looped and is trimmed to exactly D.
C7_LoopCoverage ==
    (call.fn = "_get_background_clip" /\ background_videos # {}) =>
        LET s == call.src.duration
            D == call.duration
            c == ret.clip
        IN  /\ c.kind = "background"
            /\ c.start = 0
            /\ c.duration = D
            /\ c.end = D
            /\ c.footage >= D
            /\ D > s => /\ c.loops = (D \div s) + 1
                        /\ c.footage = c.loops * s
                        /\ c.footage - s <= D
            /\ s >= D => /\ c.loops = 1
                         /\ c.footage = s

C7_Witness ==
    /\ call.fn = "_get_background_clip"
    /\ call.src.duration = 3
    /\ call.duration = 7
    /\ ret.clip.loops = 3
    /\ ret.clip.duration = 7

C9_EmptyPoolFallback ==
    (background_videos = {} /\ pc \notin {"start", "background"}) =>
        /\ background.kind = "color"
        /\ background.duration = total_duration
        /\ background.end = total_duration
        /\ background.w = config.width
        /\ background.h = config.height

C9_Witness ==
    /\ background_videos = {}
    /\ pc = "done"
    /\ background.kind = "color"
    /\ background.duration = total_duration
    /\ total_duration > 0

\* C10: assemble_video called with an empty audio-segment sequence fails with
\* InvalidInputError before any background, caption or output file is
\* produced, and never goes on with a zero or negative total duration.
C10_EmptyInputRejected ==
    NumSegs = 0 =>
        /\ background = NoClip
        /\ text_clips = <<>>
        /\ output_file = "absent"
        /\ pc \in {"start", "raised"}
        /\ pc = "raised" => raised = "InvalidInputError"

\* C11: a failure to load or build any clip of the assembly (background,
\* audio, caption, badge, character, render) aborts assemble_video: once a
\* stage has failed the call has left with an error, and never goes on to
\* composite, export and return success.
C11_FailureAborts ==
    failed_stages # {} => pc = "raised"

\* C12: the output file is all or nothing: a file exists at output_path only
\* complete and only once the export succeeded, and a failed assemble_video
\* leaves no file there.
C12_AllOrNothing ==
    /\ pc = "raised" => output_file = "absent"
    /\ output_file # "absent" =>
          /\ output_file = "complete"
          /\ pc \in {"cleanup", "done"}

\* C13: on every exit path of assemble_video, the return and every raise,
\* each clip it opened (background, audio clips, character clips, the final
\* composite) has been closed.
C13_ResourcesReleased ==
    pc \in {"done", "raised"} => open_resources = {}

Badges(clips) == SelectSeq(clips, LAMBDA c : c.kind = "badge")

\* C17: every assembled video (the composite that is exported) has exactly
\* one subreddit badge layer, starting at 0 and lasting total_duration.
C17_OneBadge ==
    pc \in {"export", "cleanup", "done"} =>
        /\ Len(Badges(all_clips)) = 1
        /\ Badges(all_clips)[1].start = 0
        /\ Badges(all_clips)[1].duration = total_duration
        /\ Badges(all_clips)[1].end = total_duration

SegmentsWithVideo == { character_videos[k].segment_index :
                          k \in 1..Len(character_videos) }

SegmentsDone == { audio_segments[k].segment_index :
                     k \in 1..Min(idx - 1, NumSegs) }

\* C18: a character layer exists only for a processed audio segment whose
\* segment_index has an entry in character_videos, there is at most one per
\* segment, and there is none when character_videos is empty.
C18_CharacterOnlyWithEntry ==
    /\ \A k \in 1..Len(character_clips) :
          /\ character_clips[k].seg \in SegmentsWithVideo
          /\ character_clips[k].seg \in SegmentsDone
    /\ \A j, k \in 1..Len(character_clips) :
          character_clips[j].seg = character_clips[k].seg => j = k
    /\ character_videos = <<>> => character_clips = <<>>
    /\ pc \in {"export", "cleanup", "done"} =>
          \A k \in 1..Len(all_clips) :
              all_clips[k].kind = "character" =>
                  all_clips[k].seg \in SegmentsWithVideo

C18_Witness ==
    /\ pc = "done"
    /\ NumSegs = 2
    /\ Len(character_videos) = 1
    /\ character_videos[1].segment_index = audio_segments[2].segment_index
    /\ Len(character_clips) = 1
    /\ character_clips[1].seg = audio_segments[2].segment_index
    /\ \E k \in 1..Len(all_clips) : all_clips[k].kind = "character"

\* The entries of trace other than the thumbnail all ended well.
OnlyThumbnailFailed ==
    \A k \in 1..Len(trace) :
        trace[k].stage # "thumbnail" => trace[k].outcome = "ok"

\* C14: create_thumbnail never raises, whichever of its steps fails, and in
\* run_full_pipeline a failed thumbnail after a successful assembly prevents
\* neither the upload, nor the mark-as-used step, nor success = True.
C14_ThumbnailNonFatal ==
    /\ thumbnail # "raised"
    /\ (p_pc = "returned" /\ thumbnail \in {"False", "raised"}
          /\ OnlyThumbnailFailed) =>
            /\ results.success
            /\ results.story_id \in used_stories
            /\ upload => results.youtube_id # 0

Stages == {"fetch", "script", "audio", "character", "assemble", "upload"}

StageTrace == SelectSeq(trace, LAMBDA e : e.stage \in Stages)

\* The stage the claimed order puts after stage.
FollowingStage(stage) ==
    CASE stage = "fetch" -> "script"
      [] stage = "script" -> "audio"
      [] stage = "audio" -> IF enable_character THEN "character" ELSE "assemble"
      [] stage = "character" -> "assemble"
      [] stage = "assemble" -> "upload"
      [] OTHER -> "none"

\* C20: run_full_pipeline calls its stages in the order fetch, script, audio,
\* character videos (only if enabled), assemble, upload (only if requested),
\* skipping none; a stage that failed or produced nothing (no story, no audio
\* segment, an exception) is the last stage called, and after an exception
\* nothing at all is called.
C20_LinearPipeline ==
    /\ StageTrace # <<>> => StageTrace[1].stage = "fetch"
    /\ \A k \in 1..(Len(StageTrace) - 1) :
          /\ StageTrace[k].outcome = "ok"
          /\ StageTrace[k + 1].stage = FollowingStage(StageTrace[k].stage)
    /\ \A k \in 1..Len(StageTrace) :
          /\ StageTrace[k].stage = "character" => enable_character
          /\ StageTrace[k].stage = "upload" => upload
    /\ \A k \in 1..(Len(trace) - 1) : trace[k].outcome # "raised"
    /\ (results.success /\ ~dry_run) =>
          StageTrace[Len(StageTrace)].stage
              = IF upload THEN "upload" ELSE "assemble"

C20_Witness ==
    /\ p_pc = "returned"
    /\ results.success
    /\ enable_character /\ upload /\ ~dry_run
    /\ Len(StageTrace) = 6
    /\ StageTrace[4].stage = "character"
    /\ StageTrace[6].stage = "upload"
    /\ StageTrace[6].outcome = "ok"

\* The number of characters on a line: its pieces and the spaces between.
RECURSIVE SumSeq(_)
SumSeq(q) == IF q = <<>> THEN 0 ELSE Head(q) + SumSeq(Tail(q))

LineLen(line) == IF line = <<>> THEN 0 ELSE SumSeq(line) + Len(line) - 1

Returned == call.fn = "_create_text_clip" /\ ret.built # "raised"

\* C15: every clip _create_text_clip returns has the font size, color and
\* position its (segment type, voice) has in the table: intro/outro: title
\* size, white, screen center; otherwise commentator: commentary size, gold,
\* centred horizontally at 75% of the frame height; otherwise story size,
\* white, screen center.
C15_StylingTable ==
    Returned =>
        IF call.segment_type \in {"intro", "outro"}
        THEN /\ ret.font_size = 48
             /\ ret.color = "white"
             /\ ret.position = [x |-> "center", y |-> "center", y_4 |-> 0]
        ELSE IF call.voice = "commentator"
        THEN /\ ret.font_size = 32
             /\ ret.color = "#FFD700"
             /\ ret.position = [x |-> "center", y |-> "pixels",
                                y_4 |-> 3 * config.height]
        ELSE /\ ret.font_size = 36
             /\ ret.color = "white"
             /\ ret.position = [x |-> "center", y |-> "center", y_4 |-> 0]

\* C16: the text is wrapped to 30 characters a line for intro/outro and 35
\* otherwise (no line longer, no character lost, no word moved down that
\* still fitted); more than 8 wrapped lines are rendered as the first 8 with
\* an ellipsis on the 8th, 8 or fewer unchanged; never more than 8 lines.
C16_WrapAndTruncate ==
    Returned =>
        LET width == IF call.segment_type \in {"intro", "outro"} THEN 30 ELSE 35
            w == ret.wrapped
            n == Len(w)
        IN  /\ \A k \in 1..n : LineLen(w[k]) <= width
            /\ SumSeq([k \in 1..n |-> SumSeq(w[k])]) = SumSeq(call.text)
            /\ \A k \in 1..(n - 1) : LineLen(w[k]) + 1 + w[k + 1][1] > width
            /\ Len(ret.lines) <= 8
            /\ n > 8 =>
                  /\ Len(ret.lines) = 8
                  /\ \A k \in 1..8 : /\ ret.lines[k].pieces = w[k]
                                     /\ ret.lines[k].ellipsis = (k = 8)
            /\ n <= 8 =>
                  /\ Len(ret.lines) = n
                  /\ \A k \in 1..n : /\ ret.lines[k].pieces = w[k]
                                     /\ ~ret.lines[k].ellipsis

C16_Witness ==
    /\ Returned
    /\ call.segment_type = "commentary"
    /\ call.text = <<80, 80, 80, 80>>
    /\ Len(ret.wrapped) = 10
    /\ Len(ret.lines) = 8
    /\ ret.lines[8].ellipsis
    /\ ret.lines[8].pieces = <<35>>

\* C19: each of the five anchors has its own coordinates, 20 pixels from the
\* frame edges it is anchored to, top_right 60 pixels lower and top_left 200
\* pixels further right; any other value gives the bottom_right coordinates.
C19_AnchorTable ==
    call.fn = "_get_character_position" =>
        LET W == config.width
            H == config.height
            char_w == call.size[1]
            char_h == call.size[2]
            right == W - char_w - 20
            bottom == H - char_h - 20
            a == call.CHARACTER_POSITION
        IN  /\ a = "bottom_right" => ret.position = <<right, bottom>>
            /\ a = "bottom_left" => ret.position = <<20, bottom>>
            /\ a = "top_right" => ret.position = <<right, 20 + 60>>
            /\ a = "top_left" => ret.position = <<20 + 200, 20>>
            /\ a = "center_bottom" =>
                  /\ ret.position[2] = bottom
                  /\ 2 * ret.position[1] <= W - char_w
                  /\ 2 * ret.position[1] + 1 >= W - char_w
            /\ a \notin Anchors => ret.position = <<right, bottom>>

C19_Witness ==
    /\ call.fn = "_get_character_position"
    /\ config = VideoConfig
    /\ call.CHARACTER_POSITION = "top_left"
    /\ call.size = <<378, 378>>
    /\ ret.position = <<220, 20>>

\* C21: _resumable_upload calls next_chunk again after a retriable failure
\* at most MAX_RETRIES = 3 times in the whole upload, successful chunks not
\* resetting the count, and on the 4th retriable failure it returns None.
C21_BoundedRetries ==
    u_pc # "idle" =>
        /\ u_pc = "loop" => failures <= MAX_RETRIES
        /\ u_pc \in {"loop", "returned", "raised"} => retry = failures
        /\ sleeps <= MAX_RETRIES
        /\ (failures > MAX_RETRIES /\ u_pc # "handle") =>
              /\ u_pc = "returned"
              /\ response = "None"

\* The last exception of next_chunk was an HttpError that is not retriable.
FatalHttpError ==
    http_status # 0 /\ http_status \notin {500, 502, 503, 504}

\* C22: a non-retriable HttpError leaves _resumable_upload at once, whatever
\* the retries made before: it is raised, not answered with None, no sleep
\* is added for it; run_full_pipeline then returns success = False with the
\* story not marked used, the temporary files still there and video_path set.
C22_FatalHttpError ==
    FatalHttpError =>
        /\ u_pc = "raised"
        /\ response = "None"
        /\ sleeps = retry
        /\ p_pc \in {"uploading", "returned"}
        /\ p_pc = "returned" =>
              /\ ~results.success
              /\ results.youtube_id = 0
              /\ results.video_path = "output"
              /\ results.story_id \notin used_stories
              /\ temp_files = "present"
              /\ trace[Len(trace)] = [stage |-> "upload", outcome |-> "raised"]

C22_Witness ==
    /\ FatalHttpError
    /\ p_pc = "returned"
    /\ u_pc = "raised"
    /\ retry = 2
    /\ sleeps = 2
    /\ chunks_left = 1
    /\ results.video_path = "output"
    /\ ~results.success

\* C23: every call of _resumable_upload for an upload of finitely many
\* chunks ends: it returns or raises.
C23_UploadTerminates ==
    <>(u_pc \in {"returned", "raised"})

\* The story of this run has been added to used_stories.
Marked == results.story_id # 0 /\ results.story_id \in used_stories

Ran(stage, outcomes) ==
    \E k \in 1..Len(trace) :
        trace[k].stage = stage /\ trace[k].outcome \in outcomes

\* C24: run_full_pipeline marks the story used only after assemble_video
\* succeeded and, if an upload was requested, after the upload attempt
\* returned; in a dry run, with no story, with no audio segment, or when a
\* stage raised, the story is not in used_stories.
C24_MarkedAfterAssembly ==
    /\ Marked =>
          /\ Ran("assemble", {"ok"})
          /\ upload => Ran("upload", {"ok", "nothing"})
    /\ (p_pc # "idle" /\ dry_run) => ~Marked
    /\ Ran("fetch", {"nothing"}) => ~Marked
    /\ Ran("audio", {"nothing"}) => ~Marked
    /\ (\E stage \in Stages : Ran(stage, {"raised"})) => ~Marked

C24_Witness ==
    /\ p_pc = "returned"
    /\ Marked
    /\ upload
    /\ Ran("upload", {"nothing"})
    /\ results.success

\* a is a subsequence of b: the entries of a, in order, at increasing
\* positions of b.
RECURSIVE IsSubsequence(_, _)
IsSubsequence(a, b) ==
    IF a = <<>> THEN TRUE
    ELSE IF b = <<>> THEN FALSE
    ELSE IF Head(a) = Head(b) THEN IsSubsequence(Tail(a), Tail(b))
    ELSE IsSubsequence(a, Tail(b))

\* C27: generate_all_audio returns entries with strictly increasing
\* segment_index, each a position of the script with that segment's type,
\* voice and text; exactly the segments whose text-to-speech call succeeded
\* are there, the ones after a failure included.
C27_AudioInScriptOrder ==
    call.fn = "generate_all_audio" =>
        LET script == call.script
            out == ret.audio_segments
        IN  /\ \A k \in 1..Len(out) :
                  /\ out[k].segment_index \in 0..(Len(script) - 1)
                  /\ out[k].segment_type = script[out[k].segment_index + 1].type
                  /\ out[k].voice = script[out[k].segment_index + 1].voice
                  /\ out[k].text = script[out[k].segment_index + 1].text
            /\ \A k \in 1..(Len(out) - 1) :
                  out[k].segment_index < out[k + 1].segment_index
            /\ { out[k].segment_index : k \in 1..Len(out) }
                  = { i - 1 : i \in { j \in 1..Len(script) : call.tts_ok[j] } }
            /\ IsSubsequence([k \in 1..Len(out) |->
                                 [type |-> out[k].segment_type,
                                  voice |-> out[k].voice,
                                  text |-> out[k].text]],
                             script)

C27_Witness ==
    /\ call.fn = "generate_all_audio"
    /\ Len(call.script) = 2
    /\ ~call.tts_ok[1]
    /\ call.tts_ok[2]
    /\ Len(ret.audio_segments) = 1
    /\ ret.audio_segments[1].segment_index = 1
    /\ ret.audio_segments[1].voice = "commentator"

Fetches == {"fetch_stories", "get_best_story", "get_stories_batch"}

\* C26: on one scraper used_stories only grows (after a call it holds what it
\* held before, plus the id given to mark_as_used), is_valid_story is False for a submission whose id is
\* in used_stories, and no fetch returns a story whose id was in
\* used_stories when the fetch was made.
C26_UsedStoriesExcluded ==
    call.fn # "none" =>
        /\ call.used \subseteq used_stories
        /\ used_stories =
              IF call.fn = "mark_as_used"
              THEN call.used \cup {call.story_id} ELSE call.used
        /\ (call.fn = "is_valid_story" /\ call.submission.id \in call.used) =>
              ~ret.valid
        /\ call.fn \in Fetches =>
              \A k \in 1..Len(ret.stories) :
                  /\ ret.stories[k].id \notin call.used
                  /\ \E j \in 1..Len(call.listing) :
                        call.listing[j] = ret.stories[k]

C26_Witness ==
    /\ call.fn = "get_stories_batch"
    /\ call.used = {1}
    /\ Len(call.listing) = 2
    /\ call.listing[1].id = 1
    /\ call.listing[1].acceptable
    /\ call.listing[2].id = 2
    /\ Len(ret.stories) = 1
    /\ ret.stories[1].id = 2

\* C29: in every result run_full_pipeline returns, success = True implies
\* that story_id is set and, unless the run is a dry run, that video_path is
\* set; youtube_id is set only if an upload was requested and video_path is
\* set; success = False implies that the errors list is not empty.
C29_ResultConsistent ==
    p_pc = "returned" =>
        /\ results.success =>
              /\ results.story_id # 0
              /\ ~dry_run => results.video_path # "None"
        /\ results.youtube_id # 0 =>
              /\ upload
              /\ results.video_path # "None"
        /\ ~results.success => results.errors # <<>>

C29_Witness ==
    /\ p_pc = "returned"
    /\ ~results.success
    /\ results.video_path # "None"
    /\ Ran("upload", {"raised"})
    /\ Len(results.errors) = 1

\* The stories whose processing has returned, in the order of b_results.
Processed == [k \in 1..Len(b_results) |-> b_results[k].story_id]

\* C25: batch_process handles the fetched stories one at a time in their
\* order, and every story whose process_single_story has returned is in
\* used_stories, whatever its result, before the next story's processing
\* begins; once batch_process has returned that is every story it fetched.
C25_BatchMarksEveryStory ==
    b_pc \in {"loop", "processing", "returned", "raised"} =>
        /\ Processed = SubSeq(batch_stories, 1, Len(b_results))
        /\ \A k \in 1..Len(b_results) : batch_stories[k] \in used_stories
        /\ b_pc \in {"loop", "processing", "returned"} =>
              Len(b_results) = b_idx - 1
        /\ b_pc = "processing" =>
              /\ b_idx <= Len(batch_stories)
              /\ results.story_id = batch_stories[b_idx]
        /\ b_pc = "returned" => Len(b_results) = Len(batch_stories)

C25_Witness ==
    /\ b_pc = "returned"
    /\ Len(batch_stories) = 2
    /\ ~b_results[1].success
    /\ b_results[2].success
    /\ {batch_stories[1], batch_stories[2]} \subseteq used_stories

\* C28: neither run_full_pipeline nor process_single_story reaches
\* assemble_video without an audio segment: when generate_all_audio yields
\* none, the call has returned with success = False and the error "Audio
\* generation failed" as its last, and no character generation, assembly or
\* upload has run.
C28_NoAssemblyWithoutAudio ==
    /\ (p_pc \in {"assemble", "s_assemble"} \/ Ran("assemble", {"ok", "raised"}))
          => n_audio >= 1
    /\ Ran("audio", {"nothing"}) =>
          /\ n_audio = 0
          /\ p_pc \in {"returned", "idle"}
          /\ ~results.success
          /\ results.errors # <<>>
          /\ results.errors[Len(results.errors)] = "Audio generation failed"
          /\ trace[Len(trace)].stage = "audio"

C28_Witness ==
    /\ b_pc = "processing"
    /\ p_pc = "returned"
    /\ enable_character
    /\ upload
    /\ Ran("audio", {"nothing"})
    /\ results.errors = <<"Audio generation failed">>

====
